---- MODULE Spec2Model ----
(***************************************************************************)
(* A model of target_csv.py: the Singer target that turns a stream of      *)
(* SCHEMA / RECORD / STATE messages into CSV files and returns the last    *)
(* checkpoint.                                                             *)
(*                                                                         *)
(* JSON values are tagged records: [num |-> 5], [str |-> "x"],             *)
(* [bool |-> TRUE], [null |-> TRUE], [list |-> <<...>>], [obj |-> <<...>>].*)
(* A JSON object (a Python dict) is a sequence of <<key, value>> pairs     *)
(* with distinct keys, in insertion order.  Python's None is JSON null.    *)
(* A CSV file is a sequence of rows, a row a sequence of cell strings;     *)
(* a file has size zero exactly when it has no row.                        *)
(***************************************************************************)
EXTENDS Integers, Sequences, FiniteSets, TLC

VARIABLES
    pc,             \* where the process is: start, reading, returned, exited, failed
    error,          \* the exception that ended the run, or "none"
    args_output,    \* args.output of main (None when -o was not given)
    config,         \* the config dict of main
    filename,       \* persist_lines: filename (None until set)
    state,          \* persist_lines: state
    schemas,        \* persist_lines: schemas
    key_properties, \* persist_lines: key_properties
    headers,        \* persist_lines: headers
    validators,     \* persist_lines: validators
    fs,             \* the files on disk
    stdout,         \* the lines written to sys.stdout by this process
    returned,       \* the value persist_lines returned to main
    lines,          \* history: the input lines read so far by this process
    origin,         \* history: for every row of every file, what wrote it
    fs0,            \* history: the files on disk when this process started
    run,            \* history: number of the current process (1..MaxRuns)
    nread,          \* history: input lines read by all processes so far
    flat_in,        \* flatten on its own: the dict d it is called with
    flat_out        \* flatten on its own: the dict it returned

vars == <<pc, error, args_output, config, filename, state, schemas,
          key_properties, headers, validators, fs, stdout, returned,
          lines, origin, fs0, run, nread, flat_in, flat_out>>

(***************************************************************************)
(* Bounds                                                                  *)
(***************************************************************************)
MaxLines == 4
MaxRuns == 2
MaxDepth == 1

(***************************************************************************)
(* JSON values and Python dicts                                            *)
(***************************************************************************)
Num(n) == [num |-> n]
Str(s) == [str |-> s]
Bool(b) == [bool |-> b]
List(l) == [list |-> l]
Obj(o) == [obj |-> o]
None == [null |-> TRUE]

IsNum(v) == "num" \in DOMAIN v
IsStr(v) == "str" \in DOMAIN v
IsBool(v) == "bool" \in DOMAIN v
IsList(v) == "list" \in DOMAIN v
IsObj(v) == "obj" \in DOMAIN v
IsNone(v) == "null" \in DOMAIN v

\* d.keys(): the keys of a dict, in insertion order
Keys(d) == [i \in 1..Len(d) |-> d[i][1]]

KeySet(d) == {d[i][1] : i \in 1..Len(d)}

\* d[k] for a key k of d
Get(d, k) == d[CHOOSE i \in 1..Len(d) : d[i][1] = k][2]

\* d[k] = v: replaces the value in place, or appends a new key
Put(d, k, v) ==
    IF k \in KeySet(d)
    THEN [i \in 1..Len(d) |-> IF d[i][1] = k THEN <<k, v>> ELSE d[i]]
    ELSE Append(d, <<k, v>>)

\* dict(items) for a list of (key, value) pairs
RECURSIVE DictOf(_)
DictOf(items) ==
    IF items = <<>> THEN <<>>
    ELSE LET n == Len(items)
         IN Put(DictOf(SubSeq(items, 1, n - 1)), items[n][1], items[n][2])

\* repr(v), which str(list) applies to the elements of a list
RECURSIVE PyRepr(_)
RECURSIVE ReprElems(_)
RECURSIVE ReprItems(_)
ReprElems(l) ==
    IF l = <<>> THEN ""
    ELSE IF Len(l) = 1 THEN PyRepr(l[1])
    ELSE PyRepr(l[1]) \o ", " \o ReprElems(Tail(l))
ReprItems(d) ==
    IF d = <<>> THEN ""
    ELSE LET one == "'" \o d[1][1] \o "': " \o PyRepr(d[1][2])
         IN IF Len(d) = 1 THEN one ELSE one \o ", " \o ReprItems(Tail(d))
PyRepr(v) ==
    IF IsNum(v) THEN ToString(v.num)
    ELSE IF IsStr(v) THEN "'" \o v.str \o "'"
    ELSE IF IsBool(v) THEN (IF v.bool THEN "True" ELSE "False")
    ELSE IF IsNone(v) THEN "None"
    ELSE IF IsList(v) THEN "[" \o ReprElems(v.list) \o "]"
    ELSE "{" \o ReprItems(v.obj) \o "}"

\* json.dumps(v)
RECURSIVE json_dumps(_)
RECURSIVE DumpElems(_)
RECURSIVE DumpItems(_)
DumpElems(l) ==
    IF l = <<>> THEN ""
    ELSE IF Len(l) = 1 THEN json_dumps(l[1])
    ELSE json_dumps(l[1]) \o ", " \o DumpElems(Tail(l))
DumpItems(d) ==
    IF d = <<>> THEN ""
    ELSE LET one == "\"" \o d[1][1] \o "\": " \o json_dumps(d[1][2])
         IN IF Len(d) = 1 THEN one ELSE one \o ", " \o DumpItems(Tail(d))
json_dumps(v) ==
    IF IsNum(v) THEN ToString(v.num)
    ELSE IF IsStr(v) THEN "\"" \o v.str \o "\""
    ELSE IF IsBool(v) THEN (IF v.bool THEN "true" ELSE "false")
    ELSE IF IsNone(v) THEN "null"
    ELSE IF IsList(v) THEN "[" \o DumpElems(v.list) \o "]"
    ELSE "{" \o DumpItems(v.obj) \o "}"

(***************************************************************************)
(* flatten                                                                 *)
(***************************************************************************)
RECURSIVE flatten_items_prefixed(_, _, _)
flatten_items_prefixed(d, parent_key, sep) ==
    IF d = <<>> THEN <<>>
    ELSE LET k == d[1][1]
             v == d[1][2]
             new_key == parent_key \o sep \o k
             here == IF IsObj(v)
                     THEN DictOf(flatten_items_prefixed(v.obj, new_key, sep))
                     ELSE << <<new_key, IF IsList(v) THEN Str(PyRepr(v)) ELSE v>> >>
         IN here \o flatten_items_prefixed(Tail(d), parent_key, sep)

\* the list `items` that flatten builds
RECURSIVE flatten_items(_, _, _)
flatten_items(d, parent_key, sep) ==
    IF d = <<>> THEN <<>>
    ELSE LET k == d[1][1]
             v == d[1][2]
             new_key == IF parent_key # "" THEN parent_key \o sep \o k ELSE k
             here == IF IsObj(v)
                     THEN DictOf(flatten_items(v.obj, new_key, sep))
                     ELSE << <<new_key, IF IsList(v) THEN Str(PyRepr(v)) ELSE v>> >>
         IN here \o flatten_items(Tail(d), parent_key, sep)

flatten(d, parent_key, sep) == DictOf(flatten_items(d, parent_key, sep))

(***************************************************************************)
(* The input lines, the schemas and the files of the model                 *)
(***************************************************************************)
Streams == {"s1", "s2"}

\* o['stream'] + '.csv'
CsvName(stream) == stream \o ".csv"

OutFile == "out.csv"
CfgFile == "cfg.csv"
Files == {CsvName(s) : s \in Streams} \cup {OutFile, CfgFile}

\* JSON schemas, in the fragment {"type": "object", "required": [...]}
SchemaA == [required |-> {"a"}]
SchemaAny == [required |-> {}]
SchemaB == [required |-> {"b"}]

\* Draft4Validator(schema)
Draft4Validator(schema) == [schema |-> schema]

Validates_lenient(validator, record) == TRUE

\* validator.validate(record) does not raise
Validates(validator, record) == validator.schema.required \subseteq KeySet(record)

RecAB == << <<"a", Num(1)>>, <<"b", Num(2)>> >>
RecACd == << <<"c", Obj(<< <<"d", Num(4)>> >>)>>, <<"a", Num(3)>> >>
RecB == << <<"b", Str("x")>> >>
RecL == << <<"b", None>>, <<"t", List(<<Num(1), Num(2)>>)>> >>

SchemaLines ==
    { [type |-> "SCHEMA", stream |-> "s1", schema |-> SchemaA, key_properties |-> <<"a">>],
      [type |-> "SCHEMA", stream |-> "s2", schema |-> SchemaAny, key_properties |-> <<>>],
      [type |-> "SCHEMA", schema |-> SchemaAny, key_properties |-> <<>>],
      [type |-> "SCHEMA", stream |-> "s2", key_properties |-> <<>>],
      [type |-> "SCHEMA", stream |-> "s1", schema |-> SchemaA] }

RecordLines ==
    { [type |-> "RECORD", stream |-> "s1", record |-> RecAB],
      [type |-> "RECORD", stream |-> "s1", record |-> RecACd],
      [type |-> "RECORD", stream |-> "s1", record |-> RecB],
      [type |-> "RECORD", stream |-> "s2", record |-> RecL],
      [type |-> "RECORD", record |-> RecAB],
      [type |-> "RECORD", stream |-> "s2"] }

StateLines ==
    { [type |-> "STATE", value |-> Num(5)],
      [type |-> "STATE", value |-> Str("5")],
      [type |-> "STATE", value |-> None],
      [type |-> "STATE"] }

OtherLines ==
    { [type |-> "ACTIVATE_VERSION", stream |-> "s1"],
      [stream |-> "s1"],
      [raw |-> "{not json"] }

Lines == SchemaLines \cup RecordLines \cup StateLines \cup OtherLines

\* json.loads(line) does not raise
Parses(line) == "raw" \notin DOMAIN line

\* the contents a file can have before the first process starts
Missing == [exists |-> FALSE, rows |-> <<>>]
Empty == [exists |-> TRUE, rows |-> <<>>]
Foreign == [exists |-> TRUE, rows |-> << <<"x", "a">>, <<"0", "1">> >>]
BlankFirst == [exists |-> TRUE, rows |-> << <<>>, <<"q">> >>]

NoFiles == [f \in Files |-> Missing]
Disks ==
    { NoFiles,
      [NoFiles EXCEPT !["s1.csv"] = Foreign, !["out.csv"] = BlankFirst],
      [NoFiles EXCEPT !["s1.csv"] = Empty, !["s2.csv"] = BlankFirst, !["out.csv"] = Foreign] }

\* the command lines and config files of main
Invocations ==
    { [output |-> None, config |-> [delimiter |-> ","]],
      [output |-> Str(OutFile), config |-> [delimiter |-> ","]],
      [output |-> None, config |-> [delimiter |-> ",", filename |-> Str(CfgFile)]] }

Old == [kind |-> "old", stream |-> "", run |-> 0, n |-> 0]

(***************************************************************************)
(* The CSV writer                                                          *)
(***************************************************************************)
\* the text csv.writer writes for one field value
CsvField(v) ==
    IF IsNone(v) THEN ""
    ELSE IF IsStr(v) THEN v.str
    ELSE PyRepr(v)

DictRow_unaligned(fieldnames, rowdict) ==
    [i \in 1..Len(rowdict) |-> CsvField(rowdict[i][2])]

\* DictWriter.writerow(rowdict) with extrasaction='ignore', restval=''
DictRow(fieldnames, rowdict) ==
    [i \in 1..Len(fieldnames) |->
        IF fieldnames[i] \in KeySet(rowdict)
        THEN CsvField(Get(rowdict, fieldnames[i]))
        ELSE ""]

\* os.path.isfile(f) is false or os.stat(f).st_size == 0
FileIsEmpty(disk, f) == ~disk[f].exists \/ disk[f].rows = <<>>

(***************************************************************************)
(* The process                                                             *)
(***************************************************************************)
Init ==
    /\ pc = "start"
    /\ error = "none"
    /\ args_output = None
    /\ config = [delimiter |-> ","]
    /\ filename = None
    /\ state = None
    /\ schemas = <<>>
    /\ key_properties = <<>>
    /\ headers = <<>>
    /\ validators = <<>>
    /\ fs \in Disks
    /\ stdout = <<>>
    /\ returned = None
    /\ lines = <<>>
    /\ origin = [f \in Files |-> [i \in 1..Len(fs[f].rows) |-> Old]]
    /\ fs0 = fs
    /\ run = 1
    /\ nread = 0
    /\ flat_in = <<>>
    /\ flat_out = <<>>

Flat == <<flat_in, flat_out>>

\* main, up to the call of persist_lines: the arguments are parsed, the
\* config is loaded, filename is chosen, and persist_lines sets up its locals
main ==
    /\ pc = "start"
    /\ \E inv \in Invocations :
        /\ args_output' = inv.output
        /\ config' = inv.config
        /\ filename' = IF ~IsNone(inv.output) THEN inv.output ELSE None
    /\ state' = None
    /\ schemas' = <<>>
    /\ key_properties' = <<>>
    /\ headers' = <<>>
    /\ validators' = <<>>
    /\ pc' = "reading"
    /\ UNCHANGED <<error, fs, stdout, returned, lines, origin, fs0, run, nread, Flat>>

\* the loop of persist_lines takes the next line of the input
Reads(line) ==
    /\ pc = "reading"
    /\ nread < MaxLines
    /\ lines' = Append(lines, line)
    /\ nread' = nread + 1
    /\ UNCHANGED <<args_output, config, stdout, returned, fs0, run, Flat>>

Raise_swallowed(exc) ==
    /\ pc' = pc
    /\ error' = exc

\* an exception leaves persist_lines and main: the process dies
Raise(exc) ==
    /\ pc' = "failed"
    /\ error' = exc

Locals == <<filename, state, schemas, key_properties, headers, validators>>
Disk == <<fs, origin>>

\* json.loads raises
BadLine(line) ==
    /\ Reads(line)
    /\ ~Parses(line)
    /\ Raise("JSONDecodeError")
    /\ UNCHANGED <<Locals, Disk>>

\* 'type' not in o
NoType(line) ==
    /\ Reads(line)
    /\ Parses(line)
    /\ "type" \notin DOMAIN line
    /\ Raise("Exception")
    /\ UNCHANGED <<Locals, Disk>>

UnknownType_skipped(line) ==
    /\ Reads(line)
    /\ Parses(line)
    /\ "type" \in DOMAIN line
    /\ line.type \notin {"RECORD", "STATE", "SCHEMA"}
    /\ UNCHANGED <<pc, error, Locals, Disk>>

\* the final else of the dispatch
UnknownType(line) ==
    /\ Reads(line)
    /\ Parses(line)
    /\ "type" \in DOMAIN line
    /\ line.type \notin {"RECORD", "STATE", "SCHEMA"}
    /\ Raise("Exception")
    /\ UNCHANGED <<Locals, Disk>>

State_tolerant(line) ==
    /\ Reads(line)
    /\ Parses(line)
    /\ "type" \in DOMAIN line
    /\ line.type = "STATE"
    /\ state' = IF "value" \in DOMAIN line THEN line.value ELSE None
    /\ UNCHANGED <<pc, error, filename, schemas, key_properties, headers, validators, Disk>>

\* t == 'STATE'
State(line) ==
    /\ Reads(line)
    /\ Parses(line)
    /\ "type" \in DOMAIN line
    /\ line.type = "STATE"
    /\ IF "value" \notin DOMAIN line
       THEN /\ Raise("KeyError")
            /\ UNCHANGED state
       ELSE /\ state' = line.value
            /\ UNCHANGED <<pc, error>>
    /\ UNCHANGED <<filename, schemas, key_properties, headers, validators, Disk>>

ValidatorsAfterSchema_all(vals, stream, schema) ==
    LET put == Put(vals, stream, Draft4Validator(schema))
    IN [i \in 1..Len(put) |-> <<put[i][1], Draft4Validator(schema)>>]

ValidatorsAfterSchema_none(vals, stream, schema) == vals

ValidatorsAfterSchema_kept(vals, stream, schema) ==
    IF stream \in KeySet(vals) THEN vals ELSE Put(vals, stream, Draft4Validator(schema))

\* validators after validators[stream] = Draft4Validator(o['schema'])
ValidatorsAfterSchema(vals, stream, schema) == Put(vals, stream, Draft4Validator(schema))

\* t == 'SCHEMA'
Schema(line) ==
    /\ Reads(line)
    /\ Parses(line)
    /\ "type" \in DOMAIN line
    /\ line.type = "SCHEMA"
    /\ IF "stream" \notin DOMAIN line
       THEN /\ Raise("Exception")
            /\ UNCHANGED <<schemas, validators, key_properties>>
       ELSE IF "schema" \notin DOMAIN line
       THEN /\ Raise("KeyError")
            /\ UNCHANGED <<schemas, validators, key_properties>>
       ELSE /\ schemas' = Put(schemas, line.stream, line.schema)
            /\ validators' = ValidatorsAfterSchema(validators, line.stream, line.schema)
            /\ IF "key_properties" \notin DOMAIN line
               THEN /\ Raise("Exception")
                    /\ UNCHANGED key_properties
               ELSE /\ key_properties' = Put(key_properties, line.stream, line.key_properties)
                    /\ UNCHANGED <<pc, error>>
    /\ UNCHANGED <<filename, state, headers, Disk>>

SchemaSeen_any(known, stream) == known # <<>>

\* o['stream'] not in schemas is false
SchemaSeen(known, stream) == stream \in KeySet(known)

\* the file the record goes to, which is also the new value of filename
Destination(fname, stream) ==
    IF IsNone(fname) THEN Str(CsvName(stream)) ELSE fname

HeaderFor_fresh(hdrs, stream, file_is_empty, first_line, flattened_record) ==
    Keys(flattened_record)

\* headers[o['stream']] after the if/else that sets it
HeaderFor(hdrs, stream, file_is_empty, first_line, flattened_record) ==
    IF stream \notin KeySet(hdrs) /\ ~file_is_empty
    THEN (IF first_line # <<>> THEN first_line ELSE Keys(flattened_record))
    ELSE Keys(flattened_record)

WritesHeader_always(file_is_empty) == TRUE

\* writer.writeheader() is called
WritesHeader(file_is_empty) == file_is_empty

StateAfterRecord_kept(st) == st

\* state after a record was written
StateAfterRecord(st) == None

\* the rows one RECORD appends to its file
Appended(fieldnames, file_is_empty, flattened_record) ==
    (IF WritesHeader(file_is_empty) THEN <<fieldnames>> ELSE <<>>)
        \o <<DictRow(fieldnames, flattened_record)>>

\* what wrote them
AppendedOrigin(file_is_empty, stream) ==
    (IF WritesHeader(file_is_empty)
     THEN <<[kind |-> "header", stream |-> stream, run |-> run, n |-> Len(lines) + 1]>>
     ELSE <<>>)
        \o <<[kind |-> "row", stream |-> stream, run |-> run, n |-> Len(lines) + 1]>>

FileAfterAppend_truncating(file, new_rows) == [exists |-> TRUE, rows |-> new_rows]

FileAfterAppend_prepending(file, new_rows) == [exists |-> TRUE, rows |-> new_rows \o file.rows]

\* the file after open(filename, 'a') and the writes of new_rows
FileAfterAppend(file, new_rows) == [exists |-> TRUE, rows |-> file.rows \o new_rows]

\* t == 'RECORD'
Record(line) ==
    /\ Reads(line)
    /\ Parses(line)
    /\ "type" \in DOMAIN line
    /\ line.type = "RECORD"
    /\ IF "stream" \notin DOMAIN line
       THEN /\ Raise("Exception")
            /\ UNCHANGED <<filename, state, headers, Disk>>
       ELSE IF ~SchemaSeen(schemas, line.stream)
       THEN /\ Raise("Exception")
            /\ UNCHANGED <<filename, state, headers, Disk>>
       ELSE IF line.stream \notin KeySet(validators) \/ "record" \notin DOMAIN line
       THEN /\ Raise("KeyError")
            /\ UNCHANGED <<filename, state, headers, Disk>>
       ELSE IF ~Validates(Get(validators, line.stream), line.record)
       THEN /\ Raise("ValidationError")
            /\ UNCHANGED <<filename, state, headers, Disk>>
       ELSE LET dest == Destination(filename, line.stream)
                f == dest.str
                file_is_empty == FileIsEmpty(fs, f)
                flattened_record == flatten(line.record, "", "__")
                first_line == IF file_is_empty THEN <<>> ELSE fs[f].rows[1]
                fieldnames == HeaderFor(headers, line.stream, file_is_empty,
                                        first_line, flattened_record)
            IN /\ filename' = dest
               /\ headers' = Put(headers, line.stream, fieldnames)
               /\ fs' = [fs EXCEPT ![f] =
                            FileAfterAppend(@, Appended(fieldnames, file_is_empty,
                                                        flattened_record))]
               /\ origin' = [origin EXCEPT ![f] =
                                @ \o AppendedOrigin(file_is_empty, line.stream)]
               /\ state' = StateAfterRecord(state)
               /\ UNCHANGED <<pc, error>>
    /\ UNCHANGED <<schemas, key_properties, validators>>

\* the input is exhausted: persist_lines returns state
Return ==
    /\ pc = "reading"
    /\ returned' = state
    /\ pc' = "returned"
    /\ UNCHANGED <<error, args_output, config, Locals, Disk, stdout, lines, fs0, run, nread, Flat>>

emit_state_always(st) == <<json_dumps(st)>>

\* the lines emit_state(st) writes to sys.stdout
emit_state(st) == IF ~IsNone(st) THEN <<json_dumps(st)>> ELSE <<>>

\* main after persist_lines: emit_state(state), then the process exits
Emit ==
    /\ pc = "returned"
    /\ stdout' = stdout \o emit_state(returned)
    /\ pc' = "exited"
    /\ UNCHANGED <<error, args_output, config, Locals, Disk, returned, lines, fs0, run, nread, Flat>>

\* the target is started again, on the files the earlier processes left
Rerun ==
    /\ pc \in {"exited", "failed"}
    /\ run < MaxRuns
    /\ run' = run + 1
    /\ pc' = "start"
    /\ error' = "none"
    /\ args_output' = None
    /\ config' = [delimiter |-> ","]
    /\ filename' = None
    /\ state' = None
    /\ schemas' = <<>>
    /\ key_properties' = <<>>
    /\ headers' = <<>>
    /\ validators' = <<>>
    /\ stdout' = <<>>
    /\ returned' = None
    /\ lines' = <<>>
    /\ fs0' = fs
    /\ UNCHANGED <<Disk, nread, Flat>>

Next ==
    \/ main
    \/ \E line \in Lines : BadLine(line)
    \/ \E line \in Lines : NoType(line)
    \/ \E line \in Lines : UnknownType(line)
    \/ \E line \in Lines : State(line)
    \/ \E line \in Lines : Schema(line)
    \/ \E line \in Lines : Record(line)
    \/ Return
    \/ Emit
    \/ Rerun

Spec == Init /\ [][Next]_vars

(***************************************************************************)
(* Properties                                                              *)
(***************************************************************************)
Last(seq) == seq[Len(seq)]

\* the input was read to its end without an exception
Completed == pc \in {"returned", "exited"}

\* the positions of the messages of type t in the input ls
Positions(ls, t) == {i \in 1..Len(ls) : "type" \in DOMAIN ls[i] /\ ls[i].type = t}

\* the positions of the RECORD messages of stream s in the input ls
RecordsOf(ls, s) ==
    {i \in Positions(ls, "RECORD") : "stream" \in DOMAIN ls[i] /\ ls[i].stream = s}

Max(S) == CHOOSE x \in S : \A y \in S : y <= x

\* the rows of file f written by the current process
Written(f) == {i \in 1..Len(origin[f]) : origin[f][i].kind # "old" /\ origin[f][i].run = run}

\* the data rows of file f written by the current process
DataRows(f) == {i \in Written(f) : origin[f][i].kind = "row"}

\* the value of the last STATE message of ls when no RECORD follows it
LastState(ls) ==
    LET st == Positions(ls, "STATE")
    IN IF st = {} THEN None
       ELSE IF \E j \in Positions(ls, "RECORD") : j > Max(st) THEN None
       ELSE ls[Max(st)].value

\* C1: when persist_lines returns, it returns the value of the last STATE
\* message if no RECORD follows it in the input, and null otherwise; SCHEMA
\* messages do not matter.
C1_Checkpoint == Completed => returned = LastState(lines)

\* a run that returns 5 from RECORD, STATE 5, SCHEMA
C1_Witness ==
    /\ pc = "returned"
    /\ Len(lines) = 4
    /\ lines[2].type = "RECORD"
    /\ lines[3].type = "STATE"
    /\ lines[4].type = "SCHEMA"
    /\ returned = Num(5)

\* C2: in a file that the run found missing or empty, the first row is the
\* header written for the first record, and every data row a later record of
\* the same stream adds is aligned to that header (absent fields blank,
\* other fields dropped).
C2_HeaderStable ==
    \A f \in Files :
        \A i \in DataRows(f) :
            (/\ FileIsEmpty(fs0, f)
             /\ origin[f][1].stream = origin[f][i].stream)
            => fs[f].rows[i] = DictRow(fs[f].rows[1], flatten(lines[origin[f][i].n].record, "", "__"))

\* C3: without an output override every row a RECORD of stream S adds is in
\* <S>.csv; with the override every row is in the override file.
C3_OneFilePerStream ==
    \A f \in Files :
        \A i \in Written(f) :
            f = IF IsNone(args_output) THEN CsvName(origin[f][i].stream) ELSE args_output.str

\* C4: when the input was processed without error and no override was
\* given, the number of data rows the run added to <S>.csv is the number of
\* RECORD messages of S in the input.
C4_RowCount ==
    (Completed /\ IsNone(args_output))
    => \A s \in Streams :
           Cardinality(DataRows(CsvName(s))) = Cardinality(RecordsOf(lines, s))

\* C5: a header row is written exactly when the file had no row before the
\* record was written, and the record's own row follows it; so a file holds
\* a header row written by the target only as its first line, and a file
\* that had content before the first run holds none.
C5_HeaderOnce ==
    \A f \in Files :
        /\ Len(origin[f]) = Len(fs[f].rows)
        /\ \A i \in 1..Len(origin[f]) :
            /\ origin[f][i].kind = "header" <=> (i = 1 /\ origin[f][i].kind # "old")
            /\ origin[f][i].kind = "header" =>
                  /\ i < Len(origin[f])
                  /\ origin[f][i + 1] = [origin[f][i] EXCEPT !.kind = "row"]

\* a file created by the first run, with its header, and appended to by the second
C5_Witness ==
    \E f \in Files :
        /\ Len(origin[f]) >= 3
        /\ origin[f][1].kind = "header"
        /\ origin[f][1].run = 1
        /\ \E i \in 1..Len(origin[f]) : origin[f][i].kind = "row" /\ origin[f][i].run = 2

\* C6: the step that raises an error changes no file and writes nothing to
\* standard output, and once the run has failed that process reads no
\* further line, changes no file and never writes a checkpoint.
C6_Abort ==
    [][/\ (error = "none" /\ error' # "none")
            => (fs' = fs /\ stdout' = <<>> /\ pc' = "failed")
       /\ error # "none"
            => (pc' = "start" /\ fs' = fs)]_vars

\* a run that fails after it wrote a row and holds the checkpoint 5
C6_Witness ==
    /\ pc = "failed"
    /\ state = Num(5)
    /\ stdout = <<>>
    /\ \E f \in Files : DataRows(f) # {}

\* C7: a RECORD whose payload lacks a key its stream's schema requires
\* fails the run with a validation error and changes no file.
C7_Invalid ==
    [][\A l \in RecordLines :
          (/\ lines' = Append(lines, l)
           /\ "stream" \in DOMAIN l
           /\ "record" \in DOMAIN l
           /\ l.stream \in KeySet(schemas)
           /\ \E k \in Get(schemas, l.stream).required : k \notin KeySet(l.record))
          => (pc' = "failed" /\ error' = "ValidationError" /\ fs' = fs)]_vars

\* the first record of a run fails validation and no file exists
C7_Witness ==
    /\ error = "ValidationError"
    /\ \A f \in Files : ~fs[f].exists

\* C8: a RECORD of a stream for which the run has read no SCHEMA message
\* fails the run with the protocol error and changes no file.
C8_SchemaFirst ==
    [][\A l \in RecordLines :
          (/\ lines' = Append(lines, l)
           /\ "stream" \in DOMAIN l
           /\ \A i \in Positions(lines, "SCHEMA") : lines[i].stream # l.stream)
          => (pc' = "failed" /\ error' = "Exception" /\ fs' = fs)]_vars

\* a RECORD of s1 fails a run that has read the SCHEMA of s2 only
C8_Witness ==
    /\ pc = "failed"
    /\ error = "Exception"
    /\ Len(lines) = 2
    /\ lines[1].type = "SCHEMA"
    /\ lines[1].stream = "s2"
    /\ Last(lines) = [type |-> "RECORD", stream |-> "s1", record |-> RecAB]

\* C9 as the specification states it: a STATE message without a value does
\* not fail the run and sets the checkpoint to null.
C9_Tolerated ==
    (/\ pc # "start"
     /\ lines # <<>>
     /\ Last(lines) = [type |-> "STATE"])
    => (pc = "reading" /\ error = "none" /\ state = None)

\* C9: a STATE message without a value fails the run with a missing-key
\* error and leaves the checkpoint and the files as they were.
C9_Fatal ==
    [][\A l \in StateLines :
          (lines' = Append(lines, l) /\ "value" \notin DOMAIN l)
          => (pc' = "failed" /\ error' = "KeyError" /\ state' = state /\ fs' = fs)]_vars

\* a STATE message without a value ends a run that holds the checkpoint 5
C9_Witness ==
    /\ pc = "failed"
    /\ error = "KeyError"
    /\ Last(lines) = [type |-> "STATE"]
    /\ state = Num(5)

\* C10: standard output is empty until the process has exited; after a
\* normal exit it holds the JSON text of the returned checkpoint as its only
\* line when that checkpoint is not null, and nothing when it is null.
C10_Emit ==
    /\ pc # "exited" => stdout = <<>>
    /\ pc = "exited" =>
          /\ IsNone(returned) <=> stdout = <<>>
          /\ ~IsNone(returned) => stdout = <<json_dumps(returned)>>
          /\ returned = Num(5) => stdout = <<"5">>
          /\ returned = Str("5") => stdout = <<"\"5\"">>

\* a run that ends after STATE "5" and prints it as a JSON string
C10_Witness ==
    /\ pc = "exited"
    /\ Len(lines) >= 2
    /\ Last(lines) = [type |-> "STATE", value |-> Str("5")]
    /\ stdout = <<"\"5\"">>

\* the entry of key k in the dict d: <<value>>, or <<>> when d has no key k
Entry(d, k) == IF k \in KeySet(d) THEN <<Get(d, k)>> ELSE <<>>

\* C11: a SCHEMA or STATE message changes no file; a SCHEMA message leaves
\* the checkpoint, the headers and the schema and validator of every other
\* stream as they were; a STATE message leaves schemas, validators and
\* headers as they were.
C11_Frame ==
    [][\A l \in SchemaLines \cup StateLines :
          lines' = Append(lines, l)
          => /\ fs' = fs
             /\ headers' = headers
             /\ l.type = "SCHEMA" =>
                   /\ state' = state
                   /\ \A s \in Streams :
                         ("stream" \in DOMAIN l => s # l.stream)
                         => /\ Entry(schemas', s) = Entry(schemas, s)
                            /\ Entry(validators', s) = Entry(validators, s)
             /\ l.type = "STATE" =>
                   /\ schemas' = schemas
                   /\ validators' = validators]_vars

\* the SCHEMA of s2 arrives when s1 has a schema, a header and rows on disk
\* and the checkpoint is 5
C11_Witness ==
    /\ pc = "reading"
    /\ Len(lines) = 4
    /\ Last(lines) = [type |-> "SCHEMA", stream |-> "s2", schema |-> SchemaAny,
                      key_properties |-> <<>>]
    /\ state = Num(5)
    /\ "s1" \in KeySet(headers)
    /\ Entry(validators, "s1") = <<Draft4Validator(SchemaA)>>
    /\ \E f \in Files : DataRows(f) # {}

(***************************************************************************)
(* Replacing the schema of a stream: the same process, fed with two        *)
(* different SCHEMA messages for s1 and records that one of them rejects.  *)
(***************************************************************************)
ReplaceLines ==
    { [type |-> "SCHEMA", stream |-> "s1", schema |-> SchemaA, key_properties |-> <<"a">>],
      [type |-> "SCHEMA", stream |-> "s1", schema |-> SchemaB, key_properties |-> <<"b">>],
      [type |-> "SCHEMA", stream |-> "s2", schema |-> SchemaAny, key_properties |-> <<>>],
      [type |-> "RECORD", stream |-> "s1", record |-> RecAB],
      [type |-> "RECORD", stream |-> "s1", record |-> RecACd],
      [type |-> "RECORD", stream |-> "s1", record |-> RecB],
      [type |-> "RECORD", stream |-> "s2", record |-> RecL] }

ReplaceNext ==
    \/ main
    \/ \E line \in ReplaceLines : Schema(line)
    \/ \E line \in ReplaceLines : Record(line)
    \/ Return
    \/ Emit

ReplaceSpec == Init /\ [][ReplaceNext]_vars

\* the positions of the SCHEMA messages of stream s in the input ls
SchemasOf(ls, s) == {i \in Positions(ls, "SCHEMA") : ls[i].stream = s}

\* C12: between messages, the schema and the validator of every stream are
\* those of the last SCHEMA message of that stream; a RECORD is accepted
\* exactly when its payload has the keys that schema requires, and is
\* otherwise rejected with a validation error.
C12_LatestSchema ==
    [][/\ \A s \in Streams :
             (pc = "reading" /\ SchemasOf(lines, s) # {})
             => LET latest == lines[Max(SchemasOf(lines, s))].schema
                IN /\ Entry(schemas, s) = <<latest>>
                   /\ Entry(validators, s) = <<Draft4Validator(latest)>>
       /\ \A l \in ReplaceLines :
             (/\ lines' = Append(lines, l)
              /\ l.type = "RECORD"
              /\ SchemasOf(lines, l.stream) # {})
             => LET latest == lines[Max(SchemasOf(lines, l.stream))].schema
                IN IF latest.required \subseteq KeySet(l.record)
                   THEN error' = "none" /\ fs' # fs
                   ELSE error' = "ValidationError" /\ fs' = fs]_vars

\* a record that only the second schema of s1 accepts is written
C12_Witness ==
    /\ pc = "reading"
    /\ error = "none"
    /\ Len(lines) = 3
    /\ lines[1].type = "SCHEMA" /\ lines[1].schema = SchemaA
    /\ lines[2].type = "SCHEMA" /\ lines[2].schema = SchemaB /\ lines[2].stream = "s1"
    /\ Last(lines) = [type |-> "RECORD", stream |-> "s1", record |-> RecB]
    /\ \E f \in Files : DataRows(f) # {}

\* a line that is not a well-formed SCHEMA, RECORD or STATE message
IllFormed(l) ==
    \/ "raw" \in DOMAIN l
    \/ "type" \notin DOMAIN l
    \/ l.type \notin {"SCHEMA", "RECORD", "STATE"}
    \/ l.type = "RECORD" /\ "stream" \notin DOMAIN l
    \/ l.type = "SCHEMA" /\ ~({"stream", "schema", "key_properties"} \subseteq DOMAIN l)

\* C13: a line that is not JSON, has no type, has an unknown type, is a
\* RECORD without stream, or is a SCHEMA without stream, schema or
\* key_properties ends the run with an error and changes no file.
C13_IllFormedFatal ==
    [][\A l \in Lines :
          (lines' = Append(lines, l) /\ IllFormed(l))
          => (pc' = "failed" /\ error' # "none" /\ fs' = fs)]_vars

\* a SCHEMA without key_properties ends a run that has written a row
C13_Witness ==
    /\ pc = "failed"
    /\ error = "Exception"
    /\ Last(lines) = [type |-> "SCHEMA", stream |-> "s1", schema |-> SchemaA]
    /\ \E f \in Files : DataRows(f) # {}

(***************************************************************************)
(* flatten on its own: called on every object of a bounded set, and then   *)
(* on its own result.                                                      *)
(***************************************************************************)
FlatKeys == {"a", ""}
FlatLeaves == {Num(1), List(<<Num(1), Num(2)>>)}

\* the dicts with keys in FlatKeys and values in vals, the key "a" first
DictsOver(vals) ==
    {<<>>}
    \cup {<< <<k, v>> >> : k \in FlatKeys, v \in vals}
    \cup {<< <<"a", v[1]>>, <<"", v[2]>> >> : v \in vals \X vals}

\* the dict d with its entries in the opposite order
Reversed(d) == [i \in 1..Len(d) |-> d[Len(d) + 1 - i]]

\* the objects nested at most depth deep
RECURSIVE Objects(_)
Objects(depth) ==
    DictsOver(FlatLeaves \cup
              (IF depth = 0 THEN {} ELSE {Obj(o) : o \in Objects(depth - 1)}))

Process == <<error, args_output, config, filename, state, schemas, key_properties,
             headers, validators, fs, stdout, returned, lines, origin, fs0, run, nread>>

FlatInit ==
    /\ pc = "flatten"
    /\ error = "none"
    /\ args_output = None
    /\ config = [delimiter |-> ","]
    /\ filename = None
    /\ state = None
    /\ schemas = <<>>
    /\ key_properties = <<>>
    /\ headers = <<>>
    /\ validators = <<>>
    /\ fs = NoFiles
    /\ stdout = <<>>
    /\ returned = None
    /\ lines = <<>>
    /\ origin = [f \in Files |-> <<>>]
    /\ fs0 = fs
    /\ run = 1
    /\ nread = 0
    /\ flat_in \in Objects(MaxDepth) \cup {Reversed(o) : o \in Objects(MaxDepth)}
    /\ flat_out = <<>>

\* flatten(d)
Flatten ==
    /\ pc = "flatten"
    /\ flat_out' = flatten(flat_in, "", "__")
    /\ pc' = "flattened"
    /\ UNCHANGED <<flat_in, Process>>

\* flatten(flatten(d))
FlattenAgain ==
    /\ pc = "flattened"
    /\ flat_in' = flat_out
    /\ flat_out' = flatten(flat_out, "", "__")
    /\ pc' = "twice"
    /\ UNCHANGED Process

FlatNext == Flatten \/ FlattenAgain

FlatSpec == FlatInit /\ [][FlatNext]_vars

\* the keys of a path joined with the separator
RECURSIVE Joined(_)
Joined(path) ==
    IF Len(path) = 1 THEN path[1] ELSE path[1] \o "__" \o Joined(Tail(path))

\* the reference result: one <<key, value>> for every leaf of d that is not
\* an object, the key its path joined, the value kept or, for a list, its text
RECURSIVE Leaves(_, _)
Leaves(d, path) ==
    UNION { LET here == Append(path, d[i][1])
                v == d[i][2]
            IN IF IsObj(v) THEN Leaves(v.obj, here)
               ELSE {<<Joined(here), IF IsList(v) THEN Str(PyRepr(v)) ELSE v>>}
            : i \in 1..Len(d) }

\* C14: flatten(d) holds exactly the reference entries, each key once.
C14_Reference ==
    pc = "flattened"
    => /\ {flat_out[i] : i \in 1..Len(flat_out)} = Leaves(flat_in, <<>>)
       /\ Cardinality(KeySet(flat_out)) = Len(flat_out)

\* C15: flattening the result of flatten returns it unchanged.
C15_Idempotent == pc = "twice" => flat_out = flat_in

\* a nested list was flattened to a__a = "[1, 2]" and flattened again
C15_Witness ==
    /\ pc = "twice"
    /\ "a__a" \in KeySet(flat_out)
    /\ Get(flat_out, "a__a") = Str("[1, 2]")

\* C16: the first RECORD a run writes for a stream gets as header the first
\* line of the file it is written to when that file has content and its
\* first line is not an empty row, and the field names of the flattened
\* record otherwise (file missing, empty, or first line empty).
C16_Establish ==
    [][\A l \in RecordLines :
          (/\ lines' = Append(lines, l)
           /\ error' = "none"
           /\ l.stream \notin KeySet(headers))
          => LET f == filename'.str
                 own == Keys(flatten(l.record, "", "__"))
             IN Entry(headers', l.stream) =
                   << IF fs[f].exists /\ fs[f].rows # <<>> /\ fs[f].rows[1] # <<>>
                      THEN fs[f].rows[1]
                      ELSE own >>]_vars

\* two streams share the override file and both adopt the header it holds
C16_Witness ==
    /\ args_output = Str(OutFile)
    /\ Entry(headers, "s1") = << <<"x", "a">> >>
    /\ Entry(headers, "s2") = << <<"x", "a">> >>

\* C17: no step deletes a file, and after every step every file starts
\* with the rows it had before the step.
C17_AppendOnly ==
    [][\A f \in Files :
          /\ fs[f].exists => fs'[f].exists
          /\ Len(fs'[f].rows) >= Len(fs[f].rows)
          /\ SubSeq(fs'[f].rows, 1, Len(fs[f].rows)) = fs[f].rows]_vars

\* a file that had content before the first run got rows from two runs
C17_Witness ==
    \E f \in Files :
        /\ origin[f] # <<>>
        /\ origin[f][1].kind = "old"
        /\ \E i \in 1..Len(origin[f]) : origin[f][i].run = 1
        /\ \E i \in 1..Len(origin[f]) : origin[f][i].run = 2
        /\ SubSeq(fs[f].rows, 1, 2) \in {Foreign.rows, BlankFirst.rows}

\* C18: the row a RECORD adds has one field per column of the header in
\* force for it, in the header's order: the text of the flattened record's
\* value for that column, or the empty text when the record has no such
\* field; fields of the record outside the header are not written.
C18_RowAligned ==
    [][\A l \in RecordLines :
          (lines' = Append(lines, l) /\ error' = "none")
          => LET f == filename'.str
                 header == Get(headers', l.stream)
                 flat == flatten(l.record, "", "__")
                 row == Last(fs'[f].rows)
             IN /\ Len(fs'[f].rows) > Len(fs[f].rows)
                /\ Len(row) = Len(header)
                /\ \A i \in 1..Len(header) :
                      row[i] = IF header[i] \in KeySet(flat)
                               THEN CsvField(Get(flat, header[i]))
                               ELSE ""]_vars

\* a record {a: 1, b: 2} written under the header x,a of an existing file:
\* x is blank and b is dropped
C18_Witness ==
    /\ pc = "reading"
    /\ lines # <<>>
    /\ Last(lines) = [type |-> "RECORD", stream |-> "s1", record |-> RecAB]
    /\ fs["s1.csv"].rows = Foreign.rows \o << <<"", "1">> >>

\* C19: before each line is read and when persist_lines has returned, the
\* same streams are registered in schemas, validators and key_properties,
\* and every stream with a header is one of them; a KeyError in a RECORD
\* therefore only comes from a missing 'record'.
C19_Registered ==
    /\ pc \in {"reading", "returned", "exited"} =>
          /\ KeySet(schemas) = KeySet(validators)
          /\ KeySet(schemas) = KeySet(key_properties)
          /\ KeySet(headers) \subseteq KeySet(schemas)
    /\ (/\ pc = "failed"
        /\ error = "KeyError"
        /\ Last(lines).type = "RECORD")
       => "record" \notin DOMAIN Last(lines)

\* both streams are registered and one of them has a header
C19_Witness ==
    /\ pc = "reading"
    /\ KeySet(schemas) = {"s1", "s2"}
    /\ KeySet(validators) = {"s1", "s2"}
    /\ KeySet(headers) = {"s2"}

\* the RECORD messages of the input that were written: all but a last one
\* that raised
Persisted ==
    {n \in Positions(lines, "RECORD") : n < Len(lines) \/ error = "none"}

\* the headers a row of the current run can have been written under: the
\* field names of a record written so far, or the first line a file had
\* when the process started
Candidates(n) ==
    {Keys(flatten(lines[m].record, "", "__")) : m \in {k \in Persisted : k <= n}}
        \cup {fs0[g].rows[1] : g \in {h \in Files : fs0[h].rows # <<>>}}

\* C20: in every file the data rows written by the run stand in the order
\* of their RECORD messages, each holds the values of its own message, and
\* every RECORD that was written has exactly one data row.
C20_Order ==
    /\ \A f \in Files :
          /\ \A i, j \in DataRows(f) :
                i < j => origin[f][i].n < origin[f][j].n
          /\ \A i \in DataRows(f) :
                /\ origin[f][i].n \in Persisted
                /\ \E h \in Candidates(origin[f][i].n) :
                      fs[f].rows[i] =
                          DictRow(h, flatten(lines[origin[f][i].n].record, "", "__"))
    /\ \A n \in Persisted :
          /\ Cardinality({f \in Files : \E i \in DataRows(f) : origin[f][i].n = n}) = 1
          /\ \A f \in Files : Cardinality({i \in DataRows(f) : origin[f][i].n = n}) <= 1

\* two records of s1 in a new file, in the order of the input
C20_Witness ==
    /\ pc = "reading"
    /\ fs["s1.csv"].rows = << <<"a", "b">>, <<"1", "2">>, <<"4", "3">> >>
    /\ Len(lines) = 3

====
